---- MODULE Spec2Model ----
(***************************************************************************)
(* Model of tele-atele-google-drive.py: the transfer pipeline of main()    *)
(* (seeding of the destination text set, date sort, selection parsing,     *)
(* text pre-filter, sequential send loop through forward_message) and the  *)
(* file-host path (download_from_google_drive driven by process_game).     *)
(*                                                                         *)
(* Texts are sequences of characters so that strip() and lower() are real  *)
(* conversions.  Source indices are 0-based as in the program; sequence    *)
(* positions are index + 1.                                                *)
(***************************************************************************)
EXTENDS Integers, Sequences, FiniteSets, TLC

\* ------------------------------------------------------------------ bounds
\* Number of messages retrieved from the source group.
NMsgs == 2
\* Largest number of comma-separated parts in the selection string.
MaxSelParts == 2

\* Largest number of parts handed to process_game.
MaxPartes == 2
\* Largest number of chunks of one download.
MaxChunks == 2
\* Number of source messages when the selection is exercised on its own.
SelLen == 8
\* Longest message text handed to compute_fingerprint.
FpTextLen == 2

\* ------------------------------------------------------------ text helpers
\* Python's None, where a path, a text or a fingerprint is expected
NoValue == <<"None">>
\* Python's None, where a resource id is expected
NoId == "None"

IsSpace(c) == c = " "

RECURSIVE LStrip(_)
LStrip(s) == IF s = <<>> THEN <<>>
             ELSE IF IsSpace(Head(s)) THEN LStrip(Tail(s)) ELSE s

RECURSIVE RStrip(_)
RStrip(s) == IF s = <<>> THEN <<>>
             ELSE IF IsSpace(s[Len(s)]) THEN RStrip(SubSeq(s, 1, Len(s) - 1)) ELSE s

\* str.strip()
Strip(s) == RStrip(LStrip(s))

LowerChar(c) == IF c = "A" THEN "a" ELSE IF c = "B" THEN "b" ELSE IF c = "F" THEN "f" ELSE c

\* str.lower()
Lower(s) == [p \in 1..Len(s) |-> LowerChar(s[p])]

\* hashlib.md5(...).hexdigest(): a digest of the bytes, distinct from any decimal id
Md5(s) == <<"md5", s>>

\* str(id)
StrOfId(n) == <<"id", n>>

\* `msg.message and msg.message.strip()`
HasText(msg) == Strip(msg.message) # <<>>

\* `msg.photo or msg.document or msg.media`
HasMedia(msg) == msg.media # "none"

\* compute_fingerprint without lower() on the text
compute_fingerprint_no_lower(msg) ==
    IF HasText(msg) THEN <<"txt:", Md5(Strip(msg.message))>>
    ELSE IF msg.media = "document" THEN
        IF msg.fname # NoValue THEN <<"doc:", Md5(Lower(Strip(msg.fname)))>>
        ELSE <<"doc:", StrOfId(msg.pid)>>
    ELSE IF msg.media = "photo" THEN <<"photo:", StrOfId(msg.pid)>>
    ELSE IF msg.media = "other" THEN <<"media:", StrOfId(msg.id)>>
    ELSE NoValue

\* compute_fingerprint with the document rule tried before the text rule
compute_fingerprint_document_first(msg) ==
    IF msg.media = "document" THEN
        IF msg.fname # NoValue THEN <<"doc:", Md5(Lower(Strip(msg.fname)))>>
        ELSE <<"doc:", StrOfId(msg.pid)>>
    ELSE IF HasText(msg) THEN <<"txt:", Md5(Lower(Strip(msg.message)))>>
    ELSE IF msg.media = "photo" THEN <<"photo:", StrOfId(msg.pid)>>
    ELSE IF msg.media = "other" THEN <<"media:", StrOfId(msg.id)>>
    ELSE NoValue

\* compute_fingerprint(msg)
compute_fingerprint(msg) ==
    IF HasText(msg) THEN <<"txt:", Md5(Lower(Strip(msg.message)))>>
    ELSE IF msg.media = "document" THEN
        IF msg.fname # NoValue THEN <<"doc:", Md5(Lower(Strip(msg.fname)))>>
        ELSE <<"doc:", StrOfId(msg.pid)>>
    ELSE IF msg.media = "photo" THEN <<"photo:", StrOfId(msg.pid)>>
    ELSE IF msg.media = "other" THEN <<"media:", StrOfId(msg.id)>>
    ELSE NoValue

\* ------------------------------------------------------------------ inputs
\* Message contents the source group may hold (text, media kind, filename
\* attribute, provider id of the photo or document).
Contents ==
    { [message |-> <<"a">>,      media |-> "none",  fname |-> NoValue, pid |-> 0],
      [message |-> <<" ", "A">>, media |-> "none",  fname |-> NoValue, pid |-> 0],
      [message |-> <<>>,         media |-> "photo", fname |-> NoValue, pid |-> 1] }

\* Message texts of the destination's recent history (<<>>: a message without text).
DestHistories ==
    { <<>>, << <<"a">> >>, << <<>>, <<"A", " ">> >> }

\* The parts of a selection string: an integer literal (the largest one is out
\* of range) or a range "a-b" (here the one over the last index and the first
\* index out of range).
SelParts ==
    { <<"int", n>> : n \in 0..NMsgs }
    \cup { <<"range", NMsgs - 1, NMsgs>> }

\* the whole string "todos"
Todos == << <<"todos">> >>

Selections ==
    { Todos } \cup UNION { [1..n -> SelParts] : n \in 1..MaxSelParts }

\* client.iter_messages(source_entity, limit=None): newest first; ids and
\* dates grow with time.
Retrieved(c) ==
    [p \in 1..NMsgs |->
        [id |-> NMsgs + 1 - p, date |-> NMsgs + 1 - p,
         message |-> c[p].message, media |-> c[p].media,
         fname |-> c[p].fname, pid |-> c[p].pid]]

\* ------------------------------------------------------------------- state
VARIABLES
    pc,              \* position of main() / forward_message()
    dest_msgs,       \* texts of the messages read from the destination
    dest_text_set,   \* the text set used for duplicate detection
    mensajes,        \* messages of the source group
    seleccion,       \* the selection string, split into parts
    indices,         \* indices parsed from the selection
    k,               \* position of the pre-filter loop in indices
    nuevos_indices,  \* indices admitted by the pre-filter
    j,               \* position of the send loop in nuevos_indices
    sem,             \* free permits of the semaphore
    file_path,       \* forward_message: result of download_media
    destino,         \* messages emitted to the destination, in order
    files,           \* local files present
    printed,         \* the lines printed by forward_message: <<index, line>>
    faults,          \* what the transport refused: <<index, "fetch" | "send">>
    procesados,      \* module-level set of downloaded Google Drive ids
    partes,          \* process_game: the parts of the game
    pp,              \* process_game: position in partes
    file_id,         \* download_from_google_drive: the extracted id
    requested,       \* download_from_google_drive: requests.get was issued
    dl_chunks,       \* download_from_google_drive: chunks written so far
    archivo,         \* process_game: result of the download
    calls,           \* finished calls of download_from_google_drive
    huellas          \* results of compute_fingerprint, one per message

mainVars == <<dest_msgs, dest_text_set, mensajes, seleccion, indices, k,
              nuevos_indices, j, sem, file_path, printed, faults>>

driveVars == <<procesados, partes, pp, file_id, requested, dl_chunks, archivo, calls>>

vars == <<pc, destino, files, mainVars, driveVars, huellas>>

\* asyncio.Semaphore(10)
SemPermits == 10

\* main() before it reads the destination; process_game is not running
Init ==
    /\ pc = "seed"
    /\ dest_msgs \in DestHistories
    /\ dest_text_set = {}
    /\ \E c \in [1..NMsgs -> Contents] : mensajes = Retrieved(c)
    /\ seleccion \in Selections
    /\ indices = <<>>
    /\ k = 1
    /\ nuevos_indices = <<>>
    /\ j = 1
    /\ sem = SemPermits
    /\ file_path = NoValue
    /\ destino = <<>>
    /\ files = {}
    /\ printed = <<>>
    /\ faults = <<>>
    /\ procesados = {}
    /\ partes = <<>>
    /\ pp = 1
    /\ file_id = NoId
    /\ requested = FALSE
    /\ dl_chunks = 0
    /\ archivo = NoValue
    /\ calls = <<>>
    /\ huellas = <<>>

\* ------------------------------------------------------- main(): seeding
\* lines 287-290: the stripped text of every destination message that has one
SeedTexts(msgs) ==
    { Strip(msgs[p]) : p \in { q \in 1..Len(msgs) : Strip(msgs[q]) # <<>> } }

Seed ==
    /\ pc = "seed"
    /\ dest_text_set' = SeedTexts(dest_msgs)
    /\ pc' = "sort"
    /\ UNCHANGED faults
    /\ UNCHANGED driveVars
    /\ UNCHANGED huellas
    /\ UNCHANGED <<dest_msgs, mensajes, seleccion, indices, k, nuevos_indices,
                   j, sem, file_path, destino, files, printed>>

\* --------------------------------------------------- main(): sort by date
RECURSIVE InsertByDate(_, _)
InsertByDate(m, s) ==
    IF s = <<>> THEN <<m>>
    ELSE IF m.date < Head(s).date THEN <<m>> \o s
    ELSE <<Head(s)>> \o InsertByDate(m, Tail(s))

\* list.sort(key=lambda m: m.date): stable, ascending
RECURSIVE SortByDate(_)
SortByDate(s) ==
    IF s = <<>> THEN <<>>
    ELSE InsertByDate(s[Len(s)], SortByDate(SubSeq(s, 1, Len(s) - 1)))

SortMensajes ==
    /\ pc = "sort"
    /\ mensajes' = SortByDate(mensajes)
    /\ pc' = "select"
    /\ UNCHANGED faults
    /\ UNCHANGED driveVars
    /\ UNCHANGED huellas
    /\ UNCHANGED <<dest_msgs, dest_text_set, seleccion, indices, k,
                   nuevos_indices, j, sem, file_path, destino, files, printed>>

\* ------------------------------------------- main(): parsing the selection
\* RangeSeq with the end excluded: range(a, b)
RangeSeqExclusive(a, b) == [p \in 1..(IF b > a THEN b - a ELSE 0) |-> a + p - 1]

\* range(a, b + 1)
RangeSeq(a, b) == [p \in 1..(IF b >= a THEN b - a + 1 ELSE 0) |-> a + p - 1]

\* one part of the selection: the indices it appends (none when int() raises)
ParsePart(part) ==
    IF part[1] = "range" THEN RangeSeq(part[2], part[3])
    ELSE IF part[1] = "int" THEN <<part[2]>>
    ELSE <<>>

RECURSIVE ParseParts(_)
ParseParts(parts) ==
    IF parts = <<>> THEN <<>>
    ELSE ParsePart(Head(parts)) \o ParseParts(Tail(parts))

\* lines 329-347
ParseSeleccion(sel, n) ==
    IF sel = Todos THEN [p \in 1..n |-> p - 1] ELSE ParseParts(sel)

Select ==
    /\ pc = "select"
    /\ indices' = ParseSeleccion(seleccion, Len(mensajes))
    /\ k' = 1
    /\ nuevos_indices' = <<>>
    /\ pc' = "filter"
    /\ UNCHANGED faults
    /\ UNCHANGED driveVars
    /\ UNCHANGED huellas
    /\ UNCHANGED <<dest_msgs, dest_text_set, mensajes, seleccion, j, sem,
                   file_path, destino, files, printed>>

\* ------------------------------------------------ main(): text pre-filter
InRange(i) == i >= 0 /\ i < Len(mensajes)

\* the key under which a message with text is looked up and recorded (line 357)
TextKey(msg) == Strip(msg.message)

\* AddKey with the insertion forgotten
AddKeyForgotten(set, key) == set

\* dest_text_set.add(txt) (line 362)
AddKey(set, key) == set \cup {key}

\* lines 352-353
FilterOutOfRange ==
    /\ pc = "filter"
    /\ k <= Len(indices)
    /\ ~InRange(indices[k])
    /\ k' = k + 1
    /\ UNCHANGED faults
    /\ UNCHANGED driveVars
    /\ UNCHANGED huellas
    /\ UNCHANGED <<pc, dest_msgs, dest_text_set, mensajes, seleccion, indices,
                   nuevos_indices, j, sem, file_path, destino, files, printed>>

\* lines 356-359
FilterDuplicate ==
    /\ pc = "filter"
    /\ k <= Len(indices)
    /\ InRange(indices[k])
    /\ HasText(mensajes[indices[k] + 1])
    /\ TextKey(mensajes[indices[k] + 1]) \in dest_text_set
    /\ k' = k + 1
    /\ UNCHANGED faults
    /\ UNCHANGED driveVars
    /\ UNCHANGED huellas
    /\ UNCHANGED <<pc, dest_msgs, dest_text_set, mensajes, seleccion, indices,
                   nuevos_indices, j, sem, file_path, destino, files, printed>>

\* lines 360-362
FilterAdmitText ==
    /\ pc = "filter"
    /\ k <= Len(indices)
    /\ InRange(indices[k])
    /\ HasText(mensajes[indices[k] + 1])
    /\ TextKey(mensajes[indices[k] + 1]) \notin dest_text_set
    /\ nuevos_indices' = Append(nuevos_indices, indices[k])
    /\ dest_text_set' = AddKey(dest_text_set, TextKey(mensajes[indices[k] + 1]))
    /\ k' = k + 1
    /\ UNCHANGED faults
    /\ UNCHANGED driveVars
    /\ UNCHANGED huellas
    /\ UNCHANGED <<pc, dest_msgs, mensajes, seleccion, indices, j, sem,
                   file_path, destino, files, printed>>

\* lines 363-365
FilterAdmitNoText ==
    /\ pc = "filter"
    /\ k <= Len(indices)
    /\ InRange(indices[k])
    /\ ~HasText(mensajes[indices[k] + 1])
    /\ nuevos_indices' = Append(nuevos_indices, indices[k])
    /\ k' = k + 1
    /\ UNCHANGED faults
    /\ UNCHANGED driveVars
    /\ UNCHANGED huellas
    /\ UNCHANGED <<pc, dest_msgs, dest_text_set, mensajes, seleccion, indices,
                   j, sem, file_path, destino, files, printed>>

RECURSIVE InsertInt(_, _)
InsertInt(x, s) ==
    IF s = <<>> THEN <<x>>
    ELSE IF x < Head(s) THEN <<x>> \o s
    ELSE <<Head(s)>> \o InsertInt(x, Tail(s))

\* list.sort() of integers
RECURSIVE SortInts(_)
SortInts(s) ==
    IF s = <<>> THEN <<>>
    ELSE InsertInt(s[Len(s)], SortInts(SubSeq(s, 1, Len(s) - 1)))

\* lines 366-368: end of the pre-filter, nuevos_indices.sort()
SortIndices ==
    /\ pc = "filter"
    /\ k > Len(indices)
    /\ nuevos_indices' = SortInts(nuevos_indices)
    /\ j' = 1
    /\ pc' = "loop"
    /\ UNCHANGED faults
    /\ UNCHANGED driveVars
    /\ UNCHANGED huellas
    /\ UNCHANGED <<dest_msgs, dest_text_set, mensajes, seleccion, indices, k,
                   sem, file_path, destino, files, printed>>

\* ------------------------------------------- main(): send loop (371-375)
Job == nuevos_indices[j]
JobMsg == mensajes[Job + 1]

\* the file download_media writes for the job at position j
MediaPath == <<"media", Job, j>>

\* line 371 and line 202: next job, `async with sem`
LoopNext ==
    /\ pc = "loop"
    /\ j <= Len(nuevos_indices)
    /\ sem > 0
    /\ sem' = sem - 1
    /\ pc' = IF HasMedia(JobMsg) THEN "download" ELSE "send_message"
    /\ UNCHANGED faults
    /\ UNCHANGED driveVars
    /\ UNCHANGED huellas
    /\ UNCHANGED <<dest_msgs, dest_text_set, mensajes, seleccion, indices, k,
                   nuevos_indices, j, file_path, destino, files, printed>>

\* lines 375-378: the loop is exhausted
LoopDone ==
    /\ pc = "loop"
    /\ j > Len(nuevos_indices)
    /\ pc' = "done"
    /\ UNCHANGED faults
    /\ UNCHANGED driveVars
    /\ UNCHANGED huellas
    /\ UNCHANGED <<dest_msgs, dest_text_set, mensajes, seleccion, indices, k,
                   nuevos_indices, j, sem, file_path, destino, files, printed>>

\* ------------------------------------------------------- forward_message
\* line 216: download_media returns a path
DownloadMediaOk ==
    /\ pc = "download"
    /\ file_path' = MediaPath
    /\ files' = files \cup {MediaPath}
    /\ pc' = "send_file"
    /\ UNCHANGED faults
    /\ UNCHANGED driveVars
    /\ UNCHANGED huellas
    /\ UNCHANGED <<dest_msgs, dest_text_set, mensajes, seleccion, indices, k,
                   nuevos_indices, j, sem, destino, printed>>

\* line 216 and 226-227: download_media returns None
DownloadMediaNone ==
    /\ pc = "download"
    /\ file_path' = NoValue
    /\ pc' = "report"
    /\ faults' = Append(faults, <<Job, "fetch">>)
    /\ UNCHANGED driveVars
    /\ UNCHANGED huellas
    /\ UNCHANGED <<dest_msgs, dest_text_set, mensajes, seleccion, indices, k,
                   nuevos_indices, j, sem, destino, files, printed>>

\* line 216: download_media raises
DownloadMediaRaise ==
    /\ pc = "download"
    /\ pc' = "except"
    /\ faults' = Append(faults, <<Job, "fetch">>)
    /\ UNCHANGED driveVars
    /\ UNCHANGED huellas
    /\ UNCHANGED <<dest_msgs, dest_text_set, mensajes, seleccion, indices, k,
                   nuevos_indices, j, sem, file_path, destino, files, printed>>

\* line 218
Caption(msg) == IF msg.message # <<>> THEN msg.message ELSE <<>>

\* line 220: send_file succeeds
SendFileOk ==
    /\ pc = "send_file"
    /\ destino' = Append(destino, [src |-> Job, body |-> Caption(JobMsg), file |-> TRUE])
    /\ pc' = "remove"
    /\ UNCHANGED faults
    /\ UNCHANGED driveVars
    /\ UNCHANGED huellas
    /\ UNCHANGED <<dest_msgs, dest_text_set, mensajes, seleccion, indices, k,
                   nuevos_indices, j, sem, file_path, files, printed>>

\* line 220: send_file raises; control passes to line 237
SendFileRaise ==
    /\ pc = "send_file"
    /\ pc' = "except"
    /\ faults' = Append(faults, <<Job, "send">>)
    /\ UNCHANGED driveVars
    /\ UNCHANGED huellas
    /\ UNCHANGED <<dest_msgs, dest_text_set, mensajes, seleccion, indices, k,
                   nuevos_indices, j, sem, file_path, destino, files, printed>>

\* lines 221-222: os.remove succeeds
RemoveOk ==
    /\ pc = "remove"
    /\ files' = files \ {file_path}
    /\ pc' = "report"
    /\ UNCHANGED faults
    /\ UNCHANGED driveVars
    /\ UNCHANGED huellas
    /\ UNCHANGED <<dest_msgs, dest_text_set, mensajes, seleccion, indices, k,
                   nuevos_indices, j, sem, file_path, destino, printed>>

\* lines 223-224: os.remove raises and the error is printed
RemoveFail ==
    /\ pc = "remove"
    /\ printed' = Append(printed, <<Job, "remove failed">>)
    /\ pc' = "report"
    /\ UNCHANGED faults
    /\ UNCHANGED driveVars
    /\ UNCHANGED huellas
    /\ UNCHANGED <<dest_msgs, dest_text_set, mensajes, seleccion, indices, k,
                   nuevos_indices, j, sem, file_path, destino, files>>

\* line 235: send_message succeeds
SendMessageOk ==
    /\ pc = "send_message"
    /\ destino' = Append(destino, [src |-> Job, body |-> JobMsg.message, file |-> FALSE])
    /\ pc' = "report"
    /\ UNCHANGED faults
    /\ UNCHANGED driveVars
    /\ UNCHANGED huellas
    /\ UNCHANGED <<dest_msgs, dest_text_set, mensajes, seleccion, indices, k,
                   nuevos_indices, j, sem, file_path, files, printed>>

\* line 235: send_message raises
SendMessageRaise ==
    /\ pc = "send_message"
    /\ pc' = "except"
    /\ faults' = Append(faults, <<Job, "send">>)
    /\ UNCHANGED driveVars
    /\ UNCHANGED huellas
    /\ UNCHANGED <<dest_msgs, dest_text_set, mensajes, seleccion, indices, k,
                   nuevos_indices, j, sem, file_path, destino, files, printed>>

\* Return with the permit of the semaphore kept
ReturnKeepsPermit(line) ==
    /\ printed' = Append(printed, <<Job, line>>)
    /\ file_path' = NoValue
    /\ j' = j + 1
    /\ pc' = "loop"
    /\ UNCHANGED faults
    /\ UNCHANGED driveVars
    /\ UNCHANGED huellas
    /\ UNCHANGED <<dest_msgs, dest_text_set, mensajes, seleccion, indices, k,
                   nuevos_indices, sem, destino, files>>

\* the end of forward_message: the semaphore is released, main goes on (line 374)
Return(line) ==
    /\ printed' = Append(printed, <<Job, line>>)
    /\ sem' = sem + 1
    /\ file_path' = NoValue
    /\ j' = j + 1
    /\ pc' = "loop"
    /\ UNCHANGED faults
    /\ UNCHANGED driveVars
    /\ UNCHANGED huellas
    /\ UNCHANGED <<dest_msgs, dest_text_set, mensajes, seleccion, indices, k,
                   nuevos_indices, destino, files>>

\* line 236
Report ==
    /\ pc = "report"
    /\ Return("enviado correctamente")

\* Except without the handler of line 237: the exception leaves
\* forward_message, releasing the semaphore, and ends the loop of main
ExceptPropagates ==
    /\ pc = "except"
    /\ sem' = sem + 1
    /\ pc' = "done"
    /\ UNCHANGED driveVars
    /\ UNCHANGED huellas
    /\ UNCHANGED <<dest_msgs, dest_text_set, mensajes, seleccion, indices, k,
                   nuevos_indices, j, file_path, printed, faults, destino, files>>

\* lines 237-238
Except ==
    /\ pc = "except"
    /\ Return("error")

\* --------------------------------------------------- file host: the links
\* A URL is the sequence of its pieces: the marker "/d/", candidate ids, and
\* other text.
IdTokens == {"ABC123", "XYZ"}

Urls ==
    { <<"https://drive.google.com/file", "/d/", "ABC123", "/view?usp=sharing">>,
      <<"https://drive.google.com/open", "/d/", "ABC123">>,
      <<"https://drive.google.com/file", "/d/", "XYZ", "/view">>,
      <<"https://drive.google.com/uc?export=download">>,
      <<"https://drive.google.com/file", "/d/">> }

PartNumbers == {1, 2}

\* ExtractDriveFileId without the marker: the first run of characters of the
\* URL is taken when no marker is followed by an id
ExtractDriveFileIdAnywhere(url) ==
    LET hits == { q \in 1..(Len(url) - 1) : url[q] = "/d/" /\ url[q + 1] \in IdTokens }
    IN  IF hits = {} THEN url[1]
        ELSE url[(CHOOSE q \in hits : \A r \in hits : q <= r) + 1]

\* re.search(r'/d/([a-zA-Z0-9_-]+)', url): the id after the first marker that
\* is followed by one
ExtractDriveFileId(url) ==
    LET hits == { q \in 1..(Len(url) - 1) : url[q] = "/d/" /\ url[q + 1] \in IdTokens }
    IN  IF hits = {} THEN NoId
        ELSE url[(CHOOSE q \in hits : \A r \in hits : q <= r) + 1]

\* os.path.join(dest_folder, file_id)
LocalFilename(id) == <<"downloads", id>>

\* AddProcessed with the insertion forgotten
AddProcessedForgotten(set, id) == set

\* procesados.add(file_id)
AddProcessed(set, id) == set \cup {id}

\* -------------------------------------------------------- process_game
RECURSIVE InsertByParte(_, _)
InsertByParte(x, s) ==
    IF s = <<>> THEN <<x>>
    ELSE IF x.parte < Head(s).parte THEN <<x>> \o s
    ELSE <<Head(s)>> \o InsertByParte(x, Tail(s))

\* SortByParte with the list left in the order given
SortByParteOmitted(s) == s

\* partes.sort(key=lambda x: x["parte"]): stable, ascending
RECURSIVE SortByParte(_)
SortByParte(s) ==
    IF s = <<>> THEN <<>>
    ELSE InsertByParte(s[Len(s)], SortByParte(SubSeq(s, 1, Len(s) - 1)))

\* process_game is entered with a list of parts
DriveInit ==
    /\ pc = "pg_sort"
    /\ partes \in UNION { [1..n -> [parte : PartNumbers, url : Urls]] : n \in 1..MaxPartes }
    /\ pp = 1
    /\ procesados = {}
    /\ file_id = NoId
    /\ requested = FALSE
    /\ dl_chunks = 0
    /\ archivo = NoValue
    /\ calls = <<>>
    /\ huellas = <<>>
    /\ destino = <<>>
    /\ files = {}
    /\ dest_msgs = <<>>
    /\ dest_text_set = {}
    /\ mensajes = <<>>
    /\ seleccion = <<>>
    /\ indices = <<>>
    /\ k = 1
    /\ nuevos_indices = <<>>
    /\ j = 1
    /\ sem = SemPermits
    /\ file_path = NoValue
    /\ printed = <<>>
    /\ faults = <<>>

\* line 177
PgSort ==
    /\ pc = "pg_sort"
    /\ partes' = SortByParte(partes)
    /\ pp' = 1
    /\ pc' = "pg_loop"
    /\ UNCHANGED mainVars
    /\ UNCHANGED huellas
    /\ UNCHANGED <<procesados, file_id, requested, dl_chunks, archivo, calls,
                   destino, files>>

CurUrl == partes[pp].url

\* the call returns `result`; what it did is recorded
DlReturn(id, net, result, chunks, path) ==
    /\ calls' = Append(calls, [id |-> id, net |-> net, result |-> result, chunks |-> chunks])
    /\ archivo' = path
    /\ pc' = "dl_return"

\* lines 144-147: no id in the URL
DlInvalid ==
    /\ pc = "pg_loop"
    /\ pp <= Len(partes)
    /\ ExtractDriveFileId(CurUrl) = NoId
    /\ DlReturn(NoId, FALSE, "invalid", 0, NoValue)
    /\ file_id' = NoId
    /\ UNCHANGED mainVars
    /\ UNCHANGED huellas
    /\ UNCHANGED <<procesados, partes, pp, requested, dl_chunks, destino, files>>

\* lines 150-152: the id was downloaded before
DlDuplicate ==
    /\ pc = "pg_loop"
    /\ pp <= Len(partes)
    /\ ExtractDriveFileId(CurUrl) # NoId
    /\ ExtractDriveFileId(CurUrl) \in procesados
    /\ DlReturn(ExtractDriveFileId(CurUrl), FALSE, "duplicate", 0, NoValue)
    /\ file_id' = ExtractDriveFileId(CurUrl)
    /\ UNCHANGED mainVars
    /\ UNCHANGED huellas
    /\ UNCHANGED <<procesados, partes, pp, requested, dl_chunks, destino, files>>

\* lines 154-158: requests.get is issued
DlRequest ==
    /\ pc = "pg_loop"
    /\ pp <= Len(partes)
    /\ ExtractDriveFileId(CurUrl) # NoId
    /\ ExtractDriveFileId(CurUrl) \notin procesados
    /\ file_id' = ExtractDriveFileId(CurUrl)
    /\ requested' = TRUE
    /\ dl_chunks' = 0
    /\ pc' = "dl_get"
    /\ UNCHANGED mainVars
    /\ UNCHANGED huellas
    /\ UNCHANGED <<procesados, partes, pp, archivo, calls, destino, files>>

\* lines 158-159, 167-169: the request or raise_for_status raises
DlGetRaise ==
    /\ pc = "dl_get"
    /\ DlReturn(file_id, TRUE, "error", 0, NoValue)
    /\ requested' = FALSE
    /\ UNCHANGED mainVars
    /\ UNCHANGED huellas
    /\ UNCHANGED <<procesados, partes, pp, file_id, dl_chunks, destino, files>>

\* line 160: open(local_filename, 'wb')
DlOpen ==
    /\ pc = "dl_get"
    /\ files' = files \cup {LocalFilename(file_id)}
    /\ pc' = "dl_stream"
    /\ UNCHANGED mainVars
    /\ UNCHANGED huellas
    /\ UNCHANGED <<procesados, partes, pp, file_id, requested, dl_chunks, archivo,
                   calls, destino>>

\* lines 161-163: one chunk is written
DlChunk ==
    /\ pc = "dl_stream"
    /\ dl_chunks < MaxChunks
    /\ dl_chunks' = dl_chunks + 1
    /\ UNCHANGED mainVars
    /\ UNCHANGED huellas
    /\ UNCHANGED <<pc, procesados, partes, pp, file_id, requested, archivo, calls,
                   destino, files>>

\* lines 161, 167-169: the stream raises; the handler returns None
DlStreamRaise ==
    /\ pc = "dl_stream"
    /\ DlReturn(file_id, TRUE, "error", dl_chunks, NoValue)
    /\ requested' = FALSE
    /\ dl_chunks' = 0
    /\ UNCHANGED mainVars
    /\ UNCHANGED huellas
    /\ UNCHANGED <<procesados, partes, pp, file_id, destino, files>>

\* lines 164-166: the stream ends
DlComplete ==
    /\ pc = "dl_stream"
    /\ procesados' = AddProcessed(procesados, file_id)
    /\ DlReturn(file_id, TRUE, "ok", dl_chunks, LocalFilename(file_id))
    /\ requested' = FALSE
    /\ dl_chunks' = 0
    /\ UNCHANGED mainVars
    /\ UNCHANGED huellas
    /\ UNCHANGED <<partes, pp, file_id, destino, files>>

\* lines 196-197: no file, the part is skipped
PgSkip ==
    /\ pc = "dl_return"
    /\ archivo = NoValue
    /\ pp' = pp + 1
    /\ pc' = "pg_loop"
    /\ UNCHANGED mainVars
    /\ UNCHANGED huellas
    /\ UNCHANGED <<procesados, partes, file_id, requested, dl_chunks, archivo, calls,
                   destino, files>>

\* line 187: send_file succeeds
PgSendOk ==
    /\ pc = "dl_return"
    /\ archivo # NoValue
    /\ destino' = Append(destino, [src |-> partes[pp].parte,
                                   body |-> <<"Parte", partes[pp].parte>>, file |-> TRUE])
    /\ pc' = "pg_remove"
    /\ UNCHANGED mainVars
    /\ UNCHANGED huellas
    /\ UNCHANGED <<driveVars, files>>

\* PgSendRaise with the removal placed after the send inside the try, so
\* that a send that raises jumps over it
PgSendRaiseSkipsRemove ==
    /\ pc = "dl_return"
    /\ archivo # NoValue
    /\ printed' = Append(printed, <<pp, "error">>)
    /\ archivo' = NoValue
    /\ pp' = pp + 1
    /\ pc' = "pg_loop"
    /\ UNCHANGED <<dest_msgs, dest_text_set, mensajes, seleccion, indices, k,
                   nuevos_indices, j, sem, file_path, faults>>
    /\ UNCHANGED huellas
    /\ UNCHANGED <<procesados, partes, file_id, requested, dl_chunks, calls, destino,
                   files>>

\* lines 187-189: send_file raises and the error is printed (with the
\* position of the part in the sorted list)
PgSendRaise ==
    /\ pc = "dl_return"
    /\ archivo # NoValue
    /\ printed' = Append(printed, <<pp, "error">>)
    /\ pc' = "pg_remove"
    /\ UNCHANGED <<dest_msgs, dest_text_set, mensajes, seleccion, indices, k,
                   nuevos_indices, j, sem, file_path, faults>>
    /\ UNCHANGED huellas
    /\ UNCHANGED <<driveVars, destino, files>>

\* lines 190-193: os.remove succeeds
PgRemoveOk ==
    /\ pc = "pg_remove"
    /\ files' = files \ {archivo}
    /\ archivo' = NoValue
    /\ pp' = pp + 1
    /\ pc' = "pg_loop"
    /\ UNCHANGED mainVars
    /\ UNCHANGED huellas
    /\ UNCHANGED <<procesados, partes, file_id, requested, dl_chunks, calls, destino>>

\* lines 194-195: os.remove raises and the error is printed (with the
\* position of the part in the sorted list)
PgRemoveFail ==
    /\ pc = "pg_remove"
    /\ printed' = Append(printed, <<pp, "remove failed">>)
    /\ archivo' = NoValue
    /\ pp' = pp + 1
    /\ pc' = "pg_loop"
    /\ UNCHANGED <<dest_msgs, dest_text_set, mensajes, seleccion, indices, k,
                   nuevos_indices, j, sem, file_path, faults>>
    /\ UNCHANGED huellas
    /\ UNCHANGED <<procesados, partes, file_id, requested, dl_chunks, calls, destino,
                   files>>

\* line 178: the list is exhausted
PgDone ==
    /\ pc = "pg_loop"
    /\ pp > Len(partes)
    /\ pc' = "done"
    /\ UNCHANGED mainVars
    /\ UNCHANGED huellas
    /\ UNCHANGED <<driveVars, destino, files>>

DriveNext ==
    \/ PgSort
    \/ DlInvalid
    \/ DlDuplicate
    \/ DlRequest
    \/ DlGetRaise
    \/ DlOpen
    \/ DlChunk
    \/ DlStreamRaise
    \/ DlComplete
    \/ PgSkip
    \/ PgSendOk
    \/ PgSendRaise
    \/ PgRemoveOk
    \/ PgRemoveFail
    \/ PgDone

DriveSpec == DriveInit /\ [][DriveNext]_vars

\* ------------------------------------------------------------ main(): Next
Next ==
    \/ Seed
    \/ SortMensajes
    \/ Select
    \/ FilterOutOfRange
    \/ FilterDuplicate
    \/ FilterAdmitText
    \/ FilterAdmitNoText
    \/ SortIndices
    \/ LoopNext
    \/ LoopDone
    \/ DownloadMediaOk
    \/ DownloadMediaNone
    \/ DownloadMediaRaise
    \/ SendFileOk
    \/ SendFileRaise
    \/ RemoveOk
    \/ RemoveFail
    \/ SendMessageOk
    \/ SendMessageRaise
    \/ Report
    \/ Except

Spec == Init /\ [][Next]_vars

\* main() is the only task of the event loop: whenever a step is possible
\* (an await completes or raises, a loop iteration starts) it is taken.
FairSpec == Init /\ [][Next]_vars /\ WF_vars(Next)

\* ------------------------------------------------------------- interrupts
\* Ctrl-C while forward_message is suspended in an await (lines 216, 220,
\* 235): asyncio.run cancels the task of main; CancelledError is not an
\* Exception, so the handler of line 237 does not catch it; `async with`
\* releases the semaphore and lines 383-385 exit the process.
Interrupt ==
    /\ pc \in {"download", "send_file", "send_message"}
    /\ sem' = sem + 1
    /\ pc' = "exited"
    /\ UNCHANGED faults
    /\ UNCHANGED driveVars
    /\ UNCHANGED huellas
    /\ UNCHANGED <<dest_msgs, dest_text_set, mensajes, seleccion, indices, k,
                   nuevos_indices, j, file_path, destino, files, printed>>

IntNext ==
    \/ Next
    \/ Interrupt

\* main() with an external interrupt possible during the send loop
IntSpec == Init /\ [][IntNext]_vars

\* --------------------------------------- the selection on a longer source
\* The source after the sort of line 300: photos without caption and texts.
SelSource ==
    [p \in 1..SelLen |->
        [id |-> p, date |-> p,
         message |-> IF p % 3 = 0 THEN <<>> ELSE IF p % 3 = 1 THEN <<"a">> ELSE <<" ", "A">>,
         media |-> IF p % 3 = 0 THEN "photo" ELSE "none",
         fname |-> NoValue, pid |-> p]]

\* "0,2,5-6"
SelScenario == << <<"int", 0>>, <<"int", 2>>, <<"range", 5, 6>> >>

\* Parts of a selection string: integer literals up to one past the last
\* index, ranges (some reversed, some reaching out of range), and a part
\* int() cannot parse.
SelLongParts ==
    { <<"int", n>> : n \in 0..(SelLen + 1) }
    \cup { <<"range", a, b>> : a \in {0, 5, SelLen - 1}, b \in {1, 6, SelLen} }
    \cup { <<"bad">> }

SelLongSelections ==
    { Todos, SelScenario } \cup UNION { [1..n -> SelLongParts] : n \in 1..MaxSelParts }

\* main() at line 328, the destination's window being empty
SelInit ==
    /\ pc = "select"
    /\ dest_msgs = <<>>
    /\ dest_text_set = {}
    /\ mensajes = SelSource
    /\ seleccion \in SelLongSelections
    /\ indices = <<>>
    /\ k = 1
    /\ nuevos_indices = <<>>
    /\ j = 1
    /\ sem = SemPermits
    /\ file_path = NoValue
    /\ destino = <<>>
    /\ files = {}
    /\ printed = <<>>
    /\ faults = <<>>
    /\ procesados = {}
    /\ partes = <<>>
    /\ pp = 1
    /\ file_id = NoId
    /\ requested = FALSE
    /\ dl_chunks = 0
    /\ archivo = NoValue
    /\ calls = <<>>
    /\ huellas = <<>>

\* lines 328-368
SelNext ==
    \/ Select
    \/ FilterOutOfRange
    \/ FilterDuplicate
    \/ FilterAdmitText
    \/ FilterAdmitNoText
    \/ SortIndices

SelSpec == SelInit /\ [][SelNext]_vars

\* ------------------------------------------------- compute_fingerprint
FpChars == {"a", "A", " "}

FpTexts == UNION { [1..n -> FpChars] : n \in 0..FpTextLen }

\* the media a message may carry: kind, filename attribute, provider id
FpMedia ==
    { [media |-> "none", fname |-> NoValue, pid |-> 0],
      [media |-> "other", fname |-> NoValue, pid |-> 0] }
    \cup { [media |-> "photo", fname |-> NoValue, pid |-> n] : n \in {1, 2} }
    \cup { [media |-> "document", fname |-> f, pid |-> n] :
             f \in {NoValue, <<"f">>, <<"F", " ">>}, n \in {1, 2} }

\* the messages with identifier id
FpMessages(id) ==
    { [id |-> id, date |-> id, message |-> t, media |-> m.media,
       fname |-> m.fname, pid |-> m.pid] : t \in FpTexts, m \in FpMedia }

\* two messages are about to be fingerprinted
FpInit ==
    /\ pc = "fingerprint"
    /\ mensajes \in { <<m1, m2>> : m1 \in FpMessages(1), m2 \in FpMessages(2) }
    /\ huellas = <<>>
    /\ dest_msgs = <<>>
    /\ dest_text_set = {}
    /\ seleccion = <<>>
    /\ indices = <<>>
    /\ k = 1
    /\ nuevos_indices = <<>>
    /\ j = 1
    /\ sem = SemPermits
    /\ file_path = NoValue
    /\ destino = <<>>
    /\ files = {}
    /\ printed = <<>>
    /\ faults = <<>>
    /\ procesados = {}
    /\ partes = <<>>
    /\ pp = 1
    /\ file_id = NoId
    /\ requested = FALSE
    /\ dl_chunks = 0
    /\ archivo = NoValue
    /\ calls = <<>>

\* compute_fingerprint is applied to the next message
Fingerprint ==
    /\ pc = "fingerprint"
    /\ Len(huellas) < Len(mensajes)
    /\ huellas' = Append(huellas, compute_fingerprint(mensajes[Len(huellas) + 1]))
    /\ UNCHANGED <<pc, destino, files, mainVars, driveVars>>

FpNext == Fingerprint

FpSpec == FpInit /\ [][FpNext]_vars

\* ================================================================ properties
\* trimmed, case-folded text: the identity the specification gives a text
NormText(t) == Lower(Strip(t))

\* the source indices emitted to the destination
EmittedSet == { destino[q].src : q \in 1..Len(destino) }

\* the in-range indices the selection names
SelectedSet == { indices[q] : q \in { r \in 1..Len(indices) : InRange(indices[r]) } }

\* the indices whose job ended, in the order the jobs ended
Terminal(line) == line[2] \in {"enviado correctamente", "error"}

Attempted == SelectSeq(printed, Terminal)

\* C1: the messages emitted by the send loop are in strictly increasing
\* source-index order.
C1_StrictlyIncreasingEmission ==
    \A a, b \in 1..Len(destino) : a < b => destino[a].src < destino[b].src

\* C2: when no fetch or send fails, the destination holds exactly the selected
\* non-duplicate messages, each once: nothing unselected is emitted, nothing
\* is emitted twice, and every selected message whose content (normalized text,
\* or fingerprint when it has no text) is neither in the seeding window nor
\* shared with another selected message is emitted.
C2_ExactlyOnce ==
    (pc = "done" /\ faults = <<>>) =>
        /\ EmittedSet \subseteq SelectedSet
        /\ \A a, b \in 1..Len(destino) : a # b => destino[a].src # destino[b].src
        /\ \A i \in SelectedSet :
              (/\ \A q \in 1..Len(dest_msgs) :
                     HasText(mensajes[i + 1]) =>
                         NormText(dest_msgs[q]) # NormText(mensajes[i + 1].message)
               /\ \A i2 \in SelectedSet \ {i} :
                     compute_fingerprint(mensajes[i2 + 1]) # compute_fingerprint(mensajes[i + 1]))
              => i \in EmittedSet

\* C3: a source message whose trimmed, case-folded text equals that of a
\* message in the destination's seeding window is never transferred.
C3_SeededTextNotTransferred ==
    \A q \in 1..Len(destino) :
        HasText(mensajes[destino[q].src + 1]) =>
            \A d \in 1..Len(dest_msgs) :
                NormText(dest_msgs[d]) # NormText(mensajes[destino[q].src + 1].message)

\* C4: of the selected messages that share one trimmed lowercase text only the
\* first in source order is transferred, whatever the order of the selection.
C4_FirstInSourceOrderOnly ==
    \A q \in 1..Len(destino) :
        \A i \in SelectedSet :
            (/\ i < destino[q].src
             /\ HasText(mensajes[i + 1])
             /\ HasText(mensajes[destino[q].src + 1])
             /\ NormText(mensajes[i + 1].message) = NormText(mensajes[destino[q].src + 1].message))
            => FALSE

\* C5: two different selected messages without text whose fingerprints are
\* equal are never both admitted to the batch.
C5_EqualFingerprintsNotBothAdmitted ==
    \A a, b \in 1..Len(nuevos_indices) :
        (/\ nuevos_indices[a] # nuevos_indices[b]
         /\ ~HasText(mensajes[nuevos_indices[a] + 1])
         /\ ~HasText(mensajes[nuevos_indices[b] + 1])
         /\ compute_fingerprint(mensajes[nuevos_indices[a] + 1]) # NoValue)
        => compute_fingerprint(mensajes[nuevos_indices[a] + 1])
               # compute_fingerprint(mensajes[nuevos_indices[b] + 1])

\* the pre-filter is looking at an in-range message with text
Submitting ==
    /\ pc = "filter"
    /\ k <= Len(indices)
    /\ InRange(indices[k])
    /\ HasText(mensajes[indices[k] + 1])

SubmittedKey == TextKey(mensajes[indices[k] + 1])

C6_AdmittedKeysDistinct ==
    /\ \A a, b \in 1..Len(nuevos_indices) :
          (a # b /\ HasText(mensajes[nuevos_indices[a] + 1])
                 /\ HasText(mensajes[nuevos_indices[b] + 1]))
          => TextKey(mensajes[nuevos_indices[a] + 1]) # TextKey(mensajes[nuevos_indices[b] + 1])
    /\ \A a \in 1..Len(nuevos_indices) :
          HasText(mensajes[nuevos_indices[a] + 1])
          => TextKey(mensajes[nuevos_indices[a] + 1]) \notin SeedTexts(dest_msgs)

C6_CheckThenAddStep ==
    Submitting =>
        IF SubmittedKey \in dest_text_set
        THEN dest_text_set' = dest_text_set /\ nuevos_indices' = nuevos_indices
        ELSE /\ dest_text_set' = dest_text_set \cup {SubmittedKey}
             /\ nuevos_indices' = Append(nuevos_indices, indices[k])

\* C6: the check-then-add step admits each key exactly once: the admitted
\* messages with text have pairwise distinct keys, none of them seeded, and a
\* step submitting a key already in the index leaves the index and the batch
\* unchanged, while a step submitting a new key records it and admits the job.
C6_CheckAndAddOnce ==
    [](pc \notin {"seed", "sort", "select"} => C6_AdmittedKeysDistinct)
        /\ [][C6_CheckThenAddStep]_vars

\* C6 witness: the pre-filter is over and two different selected messages had
\* the same key: the first submitted was admitted, the second rejected.
C6_Witness ==
    /\ pc = "loop"
    /\ \E a, b \in 1..Len(indices) :
          /\ a < b
          /\ InRange(indices[a]) /\ InRange(indices[b])
          /\ indices[a] # indices[b]
          /\ HasText(mensajes[indices[a] + 1])
          /\ TextKey(mensajes[indices[a] + 1]) = TextKey(mensajes[indices[b] + 1])
          /\ indices[a] \in { nuevos_indices[q] : q \in 1..Len(nuevos_indices) }
          /\ indices[b] \notin { nuevos_indices[q] : q \in 1..Len(nuevos_indices) }

\* C7 (as claimed): no resource id is requested from the network twice: every
\* call after the first for an id returns the duplicate outcome without a
\* request, also when the earlier call failed.
C7_NeverRequestedTwice ==
    \A a, b \in 1..Len(calls) :
        (a < b /\ calls[a].id # NoId /\ calls[a].id = calls[b].id)
        => (calls[b].net = FALSE /\ calls[b].result = "duplicate")

\* C7 (amended): once a download of an id has succeeded, every later call for
\* that id returns the duplicate outcome without a network request, and no
\* request for it is in flight.
C7_NoRequestAfterSuccess ==
    /\ \A a, b \in 1..Len(calls) :
          (a < b /\ calls[a].result = "ok" /\ calls[a].id = calls[b].id)
          => (calls[b].net = FALSE /\ calls[b].result = "duplicate")
    /\ \A a \in 1..Len(calls) :
          (calls[a].result = "ok" /\ requested) => file_id # calls[a].id

\* C7 witness: an id was downloaded and a later call for it was answered as a
\* duplicate.
C7_Witness ==
    \E a, b \in 1..Len(calls) :
        a < b /\ calls[a].result = "ok" /\ calls[b].id = calls[a].id
              /\ calls[b].result = "duplicate"

\* C8: when a download fails after chunks were written, the call reports
\* failure and no file remains at destDir/resourceId when it returns.
C8_NoPartialFileAfterFailure ==
    (/\ pc = "dl_return"
     /\ calls[Len(calls)].result = "error"
     /\ calls[Len(calls)].chunks > 0)
    => (archivo = NoValue /\ LocalFilename(calls[Len(calls)].id) \notin files)

\* C9: whatever fetches and sends raise, the send loop ends, and when it has
\* ended every admitted job has been attempted, in order.
C9_BatchNeverAborted ==
    <>(pc = "done")
        /\ [](pc = "done" => [q \in 1..Len(Attempted) |-> Attempted[q][1]] = nuevos_indices)

\* C9 witness: a job failed and a later job was attempted before the loop ended.
C9_Witness ==
    /\ pc = "done"
    /\ \E a, b \in 1..Len(Attempted) : a < b /\ Attempted[a][2] = "error"

\* C10: when forward_message has returned, no file it downloaded exists any
\* more, whether the send succeeded or raised (a failure of the removal
\* itself, which is printed, set aside).
C10_PayloadDeleted ==
    (/\ pc \in {"loop", "done"}
     /\ \A q \in 1..Len(printed) : printed[q][2] # "remove failed")
    => files = {}

\* C11: after an interrupt during the send loop the process exits with no new
\* job started and with the payload downloaded by the job in flight released.
C11_InterruptReleasesPayload ==
    pc = "exited" =>
        /\ Len(Attempted) = j - 1
        /\ MediaPath \notin files

\* the candidate indices the selection denotes on a source of n messages
ExpectedCandidates(sel, n) ==
    IF sel = Todos THEN 0..(n - 1)
    ELSE { i \in 0..(n - 1) :
             \E q \in 1..Len(sel) :
                 \/ sel[q][1] = "int" /\ sel[q][2] = i
                 \/ sel[q][1] = "range" /\ sel[q][2] <= i /\ i <= sel[q][3] }

AdmittedSet == { nuevos_indices[q] : q \in 1..Len(nuevos_indices) }

\* C12: 'todos' yields every index; otherwise the candidates are the listed
\* indices and inclusive ranges that lie in [0, len); an index out of range is
\* dropped and the others still reach the pre-filter, which ends ('0,2,5-6'
\* on 8 messages yields {0,2,5,6}).
C12_SelectionParsing ==
    /\ pc # "select" => SelectedSet = ExpectedCandidates(seleccion, Len(mensajes))
    /\ (pc # "select" /\ seleccion = SelScenario /\ Len(mensajes) = 8)
           => SelectedSet = {0, 2, 5, 6}
    /\ pc = "loop" =>
          /\ AdmittedSet \subseteq ExpectedCandidates(seleccion, Len(mensajes))
          /\ \A i \in ExpectedCandidates(seleccion, Len(mensajes)) :
                \/ i \in AdmittedSet
                \/ HasText(mensajes[i + 1]) /\ TextKey(mensajes[i + 1]) \in dest_text_set

\* C12 witness: the pre-filter has ended on "0,2,5-6" over 8 messages.
C12_Witness ==
    /\ pc = "loop"
    /\ seleccion = SelScenario
    /\ Len(mensajes) = 8
    /\ SelectedSet = {0, 2, 5, 6}

\* C13: for messages with non-empty text the fingerprint depends only on the
\* trimmed, lower-cased text: equal normalized texts give equal fingerprints,
\* whatever the media, ids, case or surrounding whitespace.
C13_FingerprintOfNormalizedText ==
    \A a, b \in 1..Len(huellas) :
        (/\ HasText(mensajes[a])
         /\ HasText(mensajes[b])
         /\ NormText(mensajes[a].message) = NormText(mensajes[b].message))
        => huellas[a] = huellas[b]

\* C13 witness: two messages with different raw texts and different media,
\* equal after normalization, got the same fingerprint.
C13_Witness ==
    /\ Len(huellas) = 2
    /\ HasText(mensajes[1])
    /\ mensajes[1].message # mensajes[2].message
    /\ Strip(mensajes[1].message) # Strip(mensajes[2].message)
    /\ mensajes[1].media # mensajes[2].media
    /\ NormText(mensajes[1].message) = NormText(mensajes[2].message)
    /\ huellas[1] = huellas[2]

\* what a message carries, in the priority order of the rules
ContentKind(msg) ==
    IF HasText(msg) THEN "text"
    ELSE IF msg.media = "document" THEN "document"
    ELSE IF msg.media = "photo" THEN "photo"
    ELSE IF msg.media = "other" THEN "media"
    ELSE "none"

\* C14: the rules apply in the order text, document, photo, other media,
\* none: a message with text (a captioned file too) gets a text fingerprint, a
\* text-less document one by filename when present and by document id
\* otherwise, a text-less photo one by photo id, other text-less media one by
\* message id, a message without content none; fingerprints of messages of
\* different kinds are never equal.
C14_FingerprintPriority ==
    /\ \A a \in 1..Len(huellas) :
          LET m == mensajes[a]
              h == huellas[a]
          IN  /\ HasText(m) => h = <<"txt:", Md5(NormText(m.message))>>
              /\ (~HasText(m) /\ m.media = "document" /\ m.fname # NoValue)
                     => h = <<"doc:", Md5(NormText(m.fname))>>
              /\ (~HasText(m) /\ m.media = "document" /\ m.fname = NoValue)
                     => h = <<"doc:", StrOfId(m.pid)>>
              /\ (~HasText(m) /\ m.media = "photo") => h = <<"photo:", StrOfId(m.pid)>>
              /\ (~HasText(m) /\ m.media = "other") => h = <<"media:", StrOfId(m.id)>>
              /\ (~HasText(m) /\ m.media = "none") => h = NoValue
    /\ \A a, b \in 1..Len(huellas) :
          ContentKind(mensajes[a]) # ContentKind(mensajes[b]) => huellas[a] # huellas[b]

\* C14 witness: a captioned document got a text fingerprint and a text-less
\* document with a filename a document fingerprint.
C14_Witness ==
    /\ Len(huellas) = 2
    /\ HasText(mensajes[1]) /\ mensajes[1].media = "document"
    /\ huellas[1][1] = "txt:"
    /\ ~HasText(mensajes[2]) /\ mensajes[2].media = "document" /\ mensajes[2].fname # NoValue
    /\ huellas[2][1] = "doc:"

\* forward_message calls that hold a permit of the semaphore
InFlight == SemPermits - sem

\* C15: at most one forward_message is in flight (so never more than the 10
\* permits), and while a job is in flight every job before it has ended, with
\* nothing emitted for a later job.
C15_SerializedEmission ==
    /\ InFlight \in {0, 1}
    /\ InFlight <= SemPermits
    /\ InFlight = 1 <=> pc \in {"download", "send_file", "remove", "send_message",
                                "report", "except"}
    /\ pc \in {"loop", "download", "send_file", "remove", "send_message", "report",
               "except", "done"}
          => /\ Len(Attempted) = j - 1
             /\ \A q \in 1..Len(Attempted) : Attempted[q][1] = nuevos_indices[q]
             /\ Len(destino) <= j

\* C15 witness: the second job is in flight after the first one ended.
C15_Witness ==
    /\ pc \in {"download", "send_message"}
    /\ j = 2
    /\ InFlight = 1
    /\ Len(Attempted) = 1

\* C16: forward_message prints that a job was sent correctly only if a message
\* was emitted for it: when no job is in flight, the jobs reported as sent are
\* as many as the messages emitted (a media job whose download gave no file is
\* reported as failed).
C16_ReportedSentOnlyIfEmitted ==
    pc \in {"loop", "done"} =>
        Cardinality({ q \in 1..Len(Attempted) : Attempted[q][2] = "enviado correctamente" })
            = Len(destino)

\* the keys of the texts emitted to the destination
EmittedKeys == { Strip(destino[q].body) : q \in 1..Len(destino) }

\* C17: the duplicate index never shrinks, and a key is in it (beyond the
\* seeded ones) only for content that was sent: when the run is over no key
\* stands for content whose only transfer attempt failed.
C17_IndexGrowsOnConfirmedSend ==
    [][dest_text_set \subseteq dest_text_set']_vars
        /\ [](pc = "done" => (dest_text_set \ SeedTexts(dest_msgs)) \subseteq EmittedKeys)

\* C18: process_game sends the parts in nondecreasing part-number order
\* whatever the order of the list it was given, and makes one download call
\* for every part: a part that is skipped, or whose send raises, does not stop
\* the parts after it from being attempted.
C18_PartsInOrderNoneBlocked ==
    /\ \A q, r \in 1..Len(destino) : q < r => destino[q].src <= destino[r].src
    /\ pc = "pg_loop" => Len(calls) = pp - 1
    /\ pc = "done" => Len(calls) = Len(partes)

\* C18 witness: the first part was skipped or its send raised, and the part
\* after it, with a greater number, was sent.
C18_Witness ==
    /\ pc = "done"
    /\ Len(partes) = 2
    /\ partes[1].parte < partes[2].parte
    /\ Len(destino) = 1
    /\ destino[1].src = partes[2].parte
    /\ calls[2].result = "ok"

\* the files returned by the successful downloads of process_game, by the
\* position of their part
Returned == { q \in 1..Len(calls) : calls[q].result = "ok" }

\* C19 as stated: when process_game returns, no file returned by a successful
\* download remains in local storage.
C19_NoDownloadedFileRemains ==
    pc = "done" => \A q \in Returned : LocalFilename(calls[q].id) \notin files

\* C19 amended: after the send attempt of a part, sent or raised, the file of
\* its successful download is gone unless os.remove raised for it, which is
\* printed.
C19_RemovedUnlessRemoveRaised ==
    pc \in {"pg_loop", "done"} =>
        \A q \in Returned :
            LocalFilename(calls[q].id) \in files
                => \E r \in 1..Len(printed) : printed[r] = <<q, "remove failed">>

\* C19 witness: process_game returned, the send of a downloaded file raised
\* and the file is gone.
C19_Witness ==
    /\ pc = "done"
    /\ \E q \in Returned :
          /\ \E r \in 1..Len(printed) : printed[r] = <<q, "error">>
          /\ LocalFilename(calls[q].id) \notin files

\* a URL in which no "/d/" marker is followed by a run of id characters
NoIdInUrl(url) ==
    \A q \in 1..(Len(url) - 1) : ~(url[q] = "/d/" /\ url[q + 1] \in IdTokens)

\* the call made for the part at position q of the sorted list went to the
\* network exactly if no earlier call for the same id had succeeded
ProceedsNormally(q) ==
    /\ calls[q].result # "invalid"
    /\ calls[q].id \in IdTokens
    /\ calls[q].net <=> ~\E r \in 1..(q - 1) : calls[r].result = "ok" /\ calls[r].id = calls[q].id

\* C20: a call of download_from_google_drive on a URL with no resource id
\* returns None in one step, without a network request and leaving procesados
\* and the download directory as they were; the calls on URLs that have an id
\* are not affected by it.
C20_InvalidLinkFailsCleanly ==
    /\ [](\A q \in 1..Len(calls) :
             IF NoIdInUrl(partes[q].url)
             THEN calls[q].result = "invalid" /\ ~calls[q].net /\ calls[q].chunks = 0
             ELSE ProceedsNormally(q))
    /\ [][(pc = "pg_loop" /\ pp <= Len(partes) /\ NoIdInUrl(partes[pp].url))
             => /\ pc' = "dl_return"
                /\ Len(calls') = Len(calls) + 1
                /\ archivo' = NoValue
                /\ ~requested'
                /\ procesados' = procesados
                /\ files' = files]_vars

\* C20 witness: a call on a URL without id failed, and the next call, on a
\* valid link, went to the network and succeeded.
C20_Witness ==
    /\ Len(calls) = 2
    /\ NoIdInUrl(partes[1].url)
    /\ calls[1].result = "invalid"
    /\ calls[2].net
    /\ calls[2].result = "ok"

====
